---- MODULE Spec2Model ----
(***************************************************************************)
(* Model of the generic CRUD service (app/services/base_service_crud.py),  *)
(* the cat routes (app/main.py) and the per-request session provider       *)
(* (app/db_dependency.py) over the one table "cats".                       *)
(*                                                                         *)
(* The table is a set of rows.  `committed` holds the rows that are        *)
(* durable: they are what every other session reads.  The open session's   *)
(* transaction `tx` is the pair (ins, del): the rows it has flushed and    *)
(* the ids of committed rows it has removed or replaced.  The session      *)
(* itself reads the committed rows overlaid with its transaction.          *)
(* Requests are served one after another, each by a session of its own.    *)
(***************************************************************************)
EXTENDS Integers, Sequences, FiniteSets, TLC

VARIABLES
    committed,  \* the durable rows of table cats
    tx,         \* the open session's uncommitted transaction
    pc,         \* get_db's position in the current request
    handler,    \* how the request handler ended
    calls,      \* the calls get_db has made on the session since the yield
    ret,        \* the last service call of the handler and what it returned
    resp        \* the HTTP response of a route handler

vars == <<committed, tx, pc, handler, calls, ret, resp>>

\* ------------------------------------------------------------------ bounds
\* Primary keys range over 1..MaxId.
MaxId == 2

Ids == 1..MaxId
\* The (name, age) pairs request bodies carry.
Bodies == {[name |-> "Tom", age |-> 3], [name |-> "Kit", age |-> 4]}

\* Python's None: as the value of the optional integer field id, and as an
\* absent object (no entity, no schema, no return value).
NoneId == 0
None == [none |-> TRUE]
Fields == {"id", "name", "age"}

\* ------------------------------------------------------------ data shapes
\* Cat: the columns of table cats; id is the primary key.
Cat == {[id |-> i, name |-> b.name, age |-> b.age] : i \in Ids, b \in Bodies}

\* CatCreateSchema: id is Optional with default None, name and age are
\* required.  fields_set is pydantic's model_fields_set: the fields the
\* caller supplied (id may be supplied as an explicit null).
CatCreateSchema ==
    {[id |-> NoneId, name |-> b.name, age |-> b.age,
      fields_set |-> {"name", "age"}] : b \in Bodies}
    \cup
    {[id |-> i, name |-> b.name, age |-> b.age, fields_set |-> Fields] :
        i \in Ids \cup {NoneId}, b \in Bodies}

\* CatSchema: CatCreateSchema with a mandatory integer id.
CatSchema == {[id |-> i, name |-> b.name, age |-> b.age] : i \in Ids, b \in Bodies}

\* schema.model_dump(): every field, set or not.
model_dump(s) == [id |-> s.id, name |-> s.name, age |-> s.age]

\* schema.model_dump(exclude_unset=True): only the fields in fields_set.
model_dump_exclude_unset(s) == [f \in s.fields_set |-> s[f]]

\* from_model: None for a falsy entity, else the schema validated from the
\* entity's attribute dict.
from_model(m) ==
    IF m = None THEN None
    ELSE [id |-> m.id, name |-> m.name, age |-> m.age]

\* self.model(**dump): an unpersisted entity carrying the dumped attributes.
model(d) == [id |-> d.id, name |-> d.name, age |-> d.age]

\* ------------------------------------------------------------------ store
EmptyTx == [ins |-> {}, del |-> {}]

\* What the session reads: committed rows it has not removed, plus its own.
View(c, t) == {r \in c : r.id \notin t.del} \cup t.ins

RowIds(rows) == {r.id : r \in rows}

\* Ids the store may hand out as the next auto-assigned primary key.
FreeIds(c, t) == Ids \ (RowIds(c) \cup RowIds(t.ins))

RemoveRows(t, rows) ==
    [ins |-> t.ins \ rows,
     del |-> t.del \cup {r.id : r \in rows \ t.ins}]

AddRows(t, rows) == [t EXCEPT !.ins = t.ins \cup rows]

\* select(model).filter(pk == id_in) ... .scalars().first()
select_first(view, id_in) ==
    LET m == {r \in view : r.id = id_in}
    IN IF m = {} THEN None ELSE CHOOSE r \in m : TRUE

\* A flush that commits (an autocommit session).
FlushCommits(c, t) == [committed |-> View(c, t), tx |-> EmptyTx]

\* db.flush(): the pending statements go to the store inside the session's
\* transaction; nothing is committed.
Flush(c, t) == [committed |-> c, tx |-> t]

\* What a service call leaves: how it ended, the store after its flush, the
\* value it returned and the branch it took.
Outcome(st, f, v, b) ==
    [status |-> st, committed |-> f.committed, tx |-> f.tx, val |-> v,
     branch |-> b]

\* A call that raised: the statement had no effect on the store.
Raised(c, t, b) ==
    [status |-> "raise", committed |-> c, tx |-> t, val |-> None, branch |-> b]

\* A call that only read.
Read(c, t, v) ==
    [status |-> "ok", committed |-> c, tx |-> t, val |-> v, branch |-> "none"]

\* ---------------------------------------------------------------- service
get_by_id(view, id_in) == from_model(select_first(view, id_in))

\* create: entity from the full dump, add, flush, from_model.  k is the key
\* the store assigns when the entity's id is None.  The flush fails on a
\* primary key that is already in the table.
create(c, t, schema, k) ==
    LET db_item == model(model_dump(schema))
        row == IF db_item.id = NoneId THEN [db_item EXCEPT !.id = k] ELSE db_item
    IN IF row.id \in RowIds(View(c, t))
       THEN Raised(c, t, "create")
       ELSE Outcome("ok", Flush(c, AddRows(t, {row})), from_model(row), "create")

\* An UPDATE without its WHERE clause.
update_where_all(r, id_in) == TRUE

\* query.where(pk == id_in)
update_where(r, id_in) == r.id = id_in

\* query.values(**values) applied to one row.
set_values(r, values) ==
    [f \in Fields |-> IF f \in DOMAIN values THEN values[f] ELSE r[f]]

\* update: UPDATE cats SET <the fields set on the schema> WHERE pk = id_in,
\* flush.  The statement fails when it nulls the primary key or makes two
\* rows share one.
update(c, t, id_in, schema) ==
    LET view == View(c, t)
        values == model_dump_exclude_unset(schema)
        matched == {r \in view : update_where(r, id_in)}
        rest == view \ matched
        news == {set_values(r, values) : r \in matched}
    IN IF \/ \E n \in news : n.id = NoneId
          \/ Cardinality(news) < Cardinality(matched)
          \/ RowIds(news) \cap RowIds(rest) # {}
       THEN Raised(c, t, "update")
       ELSE Outcome("ok", Flush(c, AddRows(RemoveRows(t, matched), news)),
                    None, "update")

\* A test that always takes the update branch.
crupdate_exists_always(found) == TRUE

\* if self.get_by_id(id_in): a schema instance is truthy, None is not.
crupdate_exists(found) == found # None

crupdate(c, t, id_in, schema, k) ==
    IF crupdate_exists(get_by_id(View(c, t), id_in))
    THEN [update(c, t, id_in, schema) EXCEPT !.val = None]
    ELSE [create(c, t, schema, k) EXCEPT !.val = None]

\* A delete that accepts None silently.
delete_raises_never(entity) == FALSE

\* db.delete(entity) raises for an entity that is None (not a mapped instance).
delete_raises(entity) == entity = None

\* A delete that is never sent to the store.
session_delete_noop(t, entity) == t

\* db.delete(entity); db.flush()
session_delete(t, entity) == RemoveRows(t, {entity} \ {None})

delete(c, t, id_in) ==
    LET entity == select_first(View(c, t), id_in)
    IN IF delete_raises(entity)
       THEN Raised(c, t, "delete")
       ELSE Outcome("ok", Flush(c, session_delete(t, entity)),
                    from_model(entity), "delete")

\* ------------------------------------------------------------------- state
NoRet == [op |-> "none", id |-> NoneId, val |-> None, branch |-> "none"]
NoResp == [status |-> "none", body |-> None]

Init ==
    /\ committed = {}
    /\ tx = EmptyTx
    /\ pc = "idle"
    /\ handler = "none"
    /\ calls = <<>>
    /\ ret = NoRet
    /\ resp = NoResp

\* A provider that commits however the handler ended.
AfterHandlerCommits(h) == "after_yield"

\* get_db's position after the request handler ends: the statement after
\* the yield on a normal return, the finally block on an exception.
AfterHandler(h) == IF h = "returned" THEN "after_yield" ELSE "finally"

\* session = SessionLocal(); yield session
GetDb ==
    /\ pc \in {"idle", "done"}
    /\ pc' = "yielded"
    /\ handler' = "running"
    /\ calls' = <<>>
    /\ tx' = EmptyTx
    /\ ret' = NoRet
    /\ resp' = NoResp
    /\ UNCHANGED committed

\* One service call inside the running handler of a caller of the service;
\* an exception of the call leaves the handler (nothing in the repository
\* catches it).
Call(op, id_in, o) ==
    /\ pc = "yielded"
    /\ resp = NoResp
    /\ committed' = o.committed
    /\ tx' = o.tx
    /\ ret' = [op |-> op, id |-> id_in, val |-> o.val, branch |-> o.branch]
    /\ IF o.status = "raise"
       THEN /\ handler' = "raised"
            /\ pc' = AfterHandler("raised")
       ELSE UNCHANGED <<handler, pc>>
    /\ UNCHANGED <<calls, resp>>

\* The key the store assigns to an entity flushed with id None; NoneId when
\* the statement carries its own id and the store assigns nothing.
AutoIds(schema) ==
    IF schema.id = NoneId THEN FreeIds(committed, tx) ELSE {NoneId}

Create(schema) ==
    \E k \in AutoIds(schema) :
        Call("create", schema.id, create(committed, tx, schema, k))

GetById(id_in) ==
    Call("get_by_id", id_in,
         Read(committed, tx, get_by_id(View(committed, tx), id_in)))

Update(id_in, schema) ==
    Call("update", id_in, update(committed, tx, id_in, schema))

Crupdate(id_in, schema) ==
    LET exists == crupdate_exists(get_by_id(View(committed, tx), id_in))
    IN \E k \in (IF exists THEN {NoneId} ELSE AutoIds(schema)) :
           Call("crupdate", id_in, crupdate(committed, tx, id_in, schema, k))

Delete(id_in) ==
    Call("delete", id_in, delete(committed, tx, id_in))

\* The handler of a caller of the service returns normally.
HandlerReturn ==
    /\ pc = "yielded"
    /\ resp = NoResp
    /\ ret # NoRet
    /\ handler' = "returned"
    /\ pc' = AfterHandler("returned")
    /\ UNCHANGED <<committed, tx, calls, ret, resp>>

\* A route that never answers 404.
not_cat_never(cat) == FALSE

\* if not cat: raise HTTPException(status_code=404)
not_cat(cat) == cat = None

\* POST /cats: service.create(cat); the result is the response.
create_cat(cat) ==
    \E k \in AutoIds(cat) :
        LET o == create(committed, tx, cat, k)
            h == IF o.status = "raise" THEN "raised" ELSE "returned"
        IN /\ pc = "yielded"
           /\ ret = NoRet
           /\ committed' = o.committed
           /\ tx' = o.tx
           /\ ret' = [op |-> "create", id |-> cat.id, val |-> o.val,
                      branch |-> "create"]
           /\ resp' = IF o.status = "raise"
                      THEN [status |-> "500", body |-> None]
                      ELSE [status |-> "200", body |-> o.val]
           /\ handler' = h
           /\ pc' = AfterHandler(h)
           /\ UNCHANGED calls

\* GET /cats/{cat_id}: service.get_by_id(cat_id), 404 when the result is falsy.
get_cat_by_id(cat_id) ==
    LET cat == get_by_id(View(committed, tx), cat_id)
        h == IF not_cat(cat) THEN "raised" ELSE "returned"
    IN /\ pc = "yielded"
       /\ ret = NoRet
       /\ ret' = [op |-> "get_by_id", id |-> cat_id, val |-> cat,
                  branch |-> "none"]
       /\ resp' = IF not_cat(cat)
                  THEN [status |-> "404", body |-> None]
                  ELSE [status |-> "200", body |-> cat]
       /\ handler' = h
       /\ pc' = AfterHandler(h)
       /\ UNCHANGED <<committed, tx, calls>>

\* session.commit(): the transaction becomes durable.
Commit ==
    /\ pc = "after_yield"
    /\ committed' = View(committed, tx)
    /\ tx' = EmptyTx
    /\ calls' = Append(calls, "commit")
    /\ pc' = "finally"
    /\ UNCHANGED <<handler, ret, resp>>

\* finally: session.close() -- releases the connection; a transaction that
\* was not committed is discarded with it.
Close ==
    /\ pc = "finally"
    /\ tx' = EmptyTx
    /\ calls' = Append(calls, "close")
    /\ pc' = "done"
    /\ UNCHANGED <<committed, handler, ret, resp>>

Next ==
    \/ GetDb
    \/ \E schema \in CatCreateSchema : Create(schema)
    \/ \E i \in Ids : GetById(i)
    \/ \E i \in Ids, schema \in CatCreateSchema : Update(i, schema)
    \/ \E i \in Ids, schema \in CatCreateSchema : Crupdate(i, schema)
    \/ \E i \in Ids : Delete(i)
    \/ HandlerReturn
    \/ \E cat \in CatCreateSchema : create_cat(cat)
    \/ \E i \in Ids : get_cat_by_id(i)
    \/ Commit
    \/ Close

Spec == Init /\ [][Next]_vars

\* The framework always resumes the get_db generator once the handler has
\* ended: the statement after the yield and the finally block do run.
FairSpec == Spec /\ WF_vars(Commit) /\ WF_vars(Close)

\* ------------------------------------------------------------------ claims
SessionView == View(committed, tx)
SessionViewNext == View(committed', tx')
Exists(rows, i) == \E r \in rows : r.id = i
SessionOpen == pc \in {"yielded", "after_yield"}

\* C1: for every valid create input s, create(s) returns a full schema r,
\* and a following get_by_id(r.id) in the same session returns a schema
\* equal to r.
C1_CreateThenGet ==
    ret.op = "create" =>
        /\ handler # "raised"
        /\ ret.val \in CatSchema
        /\ SessionOpen => get_by_id(SessionView, ret.val.id) = ret.val

\* C2: update(id, s) changes, on the entity whose primary key is id, only
\* the fields set on s (which take the values of s unless the statement
\* fails); fields not set on s keep their value, every entity with another
\* primary key is unchanged, and nothing happens when no entity matches.
UpdateFrame(i, schema) ==
    LET before == SessionView
        after == SessionViewNext
        target == {r \in before : r.id = i}
    IN /\ \A r \in before \ target : r \in after
       /\ Cardinality(after) = Cardinality(before)
       /\ target = {} => after = before
       /\ \A r \in target :
            \/ after = before /\ handler' = "raised"
            \/ \E n \in after :
                 /\ after = (before \ {r}) \cup {n}
                 /\ \A f \in Fields \ schema.fields_set : n[f] = r[f]
                 /\ \A f \in schema.fields_set : n[f] = schema[f]

C2_UpdateFrame ==
    [][ret'.op = "update" =>
          \A schema \in CatCreateSchema :
              Update(ret'.id, schema) => UpdateFrame(ret'.id, schema)]_vars

C2_Witness ==
    /\ ret.op = "update"
    /\ handler = "running"
    /\ Cardinality(SessionView) = 2
    /\ \E r \in committed, n \in tx.ins :
          /\ r.id = ret.id /\ n.id = ret.id
          /\ n.name # r.name /\ n.age # r.age

\* C3: crupdate(id, s) leaves the store as create(s) does when no entity has
\* primary key id, and as update(id, s) does when one has.
SameStore(o) ==
    /\ committed' = o.committed
    /\ tx' = o.tx
    /\ (handler' = "raised") <=> (o.status = "raise")

C3_CrupdateEquiv ==
    [][ret'.op = "crupdate" =>
          \A schema \in CatCreateSchema :
              Crupdate(ret'.id, schema) =>
                  IF Exists(SessionView, ret'.id)
                  THEN SameStore(update(committed, tx, ret'.id, schema))
                  ELSE \E k \in AutoIds(schema) :
                           SameStore(create(committed, tx, schema, k))]_vars

C3_Witness ==
    /\ ret.op = "crupdate"
    /\ ret.branch = "create"
    /\ handler = "running"
    /\ ~Exists(committed, ret.id)
    /\ Cardinality(tx.ins) = 1
    /\ committed # {}

\* C4: delete(id) on an existing entity succeeds, returns the schema of the
\* entity it removed, leaves every other entity in the store, and a
\* following get_by_id(id) in the same session returns None.
C4_DeleteExisting ==
    [][(ret'.op = "delete" /\ Delete(ret'.id)
        /\ Exists(SessionView, ret'.id)) =>
          \E r \in SessionView :
              /\ r.id = ret'.id
              /\ handler' = "running"
              /\ ret'.val = [id |-> r.id, name |-> r.name, age |-> r.age]
              /\ SessionViewNext = SessionView \ {r}
              /\ get_by_id(SessionViewNext, ret'.id) = None]_vars

C4_Witness ==
    /\ ret.op = "delete"
    /\ handler = "running"
    /\ ret.val \in CatSchema
    /\ ret.val.id = ret.id
    /\ ~Exists(SessionView, ret.id)
    /\ SessionView # {}

\* C5: GET /cats/{id} answers 200 with the entity's full schema when an
\* entity with that id exists and raises 404 exactly when none exists;
\* get_by_id returns None for an absent id and does not raise.
C5_GetOr404 ==
    [][ret'.op = "get_by_id" =>
          /\ get_cat_by_id(ret'.id) =>
                IF Exists(SessionView, ret'.id)
                THEN /\ resp'.status = "200"
                     /\ resp'.body \in SessionView
                     /\ resp'.body.id = ret'.id
                     /\ handler' = "returned"
                ELSE /\ resp'.status = "404"
                     /\ handler' = "raised"
          /\ GetById(ret'.id) =>
                /\ handler' = "running"
                /\ Exists(SessionView, ret'.id) =>
                      ret'.val \in SessionView /\ ret'.val.id = ret'.id
                /\ ~Exists(SessionView, ret'.id) => ret'.val = None]_vars

C5_Witness ==
    /\ resp.status = "404"
    /\ handler = "raised"
    /\ ret.op = "get_by_id"
    /\ ~Exists(SessionView, ret.id)
    /\ committed # {}

\* C6: get_db commits the session exactly when the handler returned without
\* raising, never when it raised, closes it exactly once after the handler
\* ended in both cases, and calls nothing else on it (no rollback).
Range(seq) == {seq[n] : n \in 1..Len(seq)}

SessionCalls ==
    /\ Range(calls) \subseteq {"commit", "close"}
    /\ "commit" \in Range(calls) => handler = "returned"
    /\ pc \in {"yielded", "after_yield"} => calls = <<>>
    /\ pc = "finally" =>
          calls = IF handler = "returned" THEN <<"commit">> ELSE <<>>
    /\ pc = "done" =>
          /\ handler \in {"returned", "raised"}
          /\ calls = IF handler = "returned"
                     THEN <<"commit", "close">> ELSE <<"close">>

C6_CommitThenClose ==
    /\ []SessionCalls
    /\ (handler \in {"returned", "raised"}) ~> (pc = "done")

C6_Witness ==
    /\ pc = "done"
    /\ handler = "raised"
    /\ calls = <<"close">>
    /\ ret.op = "delete"

\* C7: create, update and delete flush without committing: a later read in
\* the same session sees the change, the durable rows other sessions read
\* change only when get_db commits after the handler returned, and the
\* changes of a request whose handler raised are discarded at close.
OtherSessionView == View(committed, EmptyTx)

C7_FlushNotCommit ==
    [][/\ OtherSessionView' # OtherSessionView =>
            /\ pc = "after_yield" /\ pc' = "finally"
            /\ handler = "returned"
            /\ OtherSessionView' = SessionView
       /\ (pc = "yielded" /\ ret' # ret /\ handler' = "running") =>
            /\ ret'.op = "create" =>
                  get_by_id(SessionViewNext, ret'.val.id) = ret'.val
            /\ ret'.op = "delete" =>
                  get_by_id(SessionViewNext, ret'.id) = None
            /\ (ret'.op = "update" /\ Exists(SessionView, ret'.id)) =>
                  \A schema \in CatCreateSchema :
                      Update(ret'.id, schema) =>
                          \E n \in SessionViewNext :
                              /\ n.name = schema.name /\ n.age = schema.age
                              /\ get_by_id(SessionViewNext, n.id) = n
       /\ (pc = "finally" /\ pc' = "done") =>
            /\ tx' = EmptyTx
            /\ handler = "raised" => OtherSessionView' = OtherSessionView]_vars

C7_Witness ==
    /\ pc = "finally"
    /\ handler = "raised"
    /\ SessionView # committed
    /\ committed # {}

\* C8: no two persisted entities share an id, and update (also through
\* crupdate) never changes the id of a persisted entity.
Unique(rows) == Cardinality(RowIds(rows)) = Cardinality(rows)

C8_IdImmutableUnique ==
    [][/\ Unique(committed') /\ Unique(SessionViewNext)
       /\ ret'.branch = "update" =>
            \A schema \in CatCreateSchema :
                (Update(ret'.id, schema) \/ Crupdate(ret'.id, schema))
                    => RowIds(SessionViewNext) = RowIds(SessionView)]_vars

\* C9: create ignores the id of its input: it persists what it persists for
\* the same input without an id, under a key the store assigns.
WithoutId(schema) ==
    [schema EXCEPT !.id = NoneId, !.fields_set = {"name", "age"}]

C9_CreateIgnoresId ==
    [][\A schema \in CatCreateSchema :
          (ret'.op = "create" /\ FreeIds(committed, tx) # {}
           /\ (Create(schema) \/ create_cat(schema))) =>
              \E k \in FreeIds(committed, tx) :
                  SameStore(create(committed, tx, WithoutId(schema), k))]_vars

\* C10: delete(id) with no entity of primary key id fails with an unhandled
\* error instead of returning None, and removes nothing.
C10_DeleteAbsentRaises ==
    [][(ret'.op = "delete" /\ Delete(ret'.id)
        /\ ~Exists(SessionView, ret'.id)) =>
          /\ handler' = "raised"
          /\ pc' = "finally"
          /\ committed' = committed
          /\ SessionViewNext = SessionView]_vars

C10_Witness ==
    /\ ret.op = "delete"
    /\ handler = "raised"
    /\ pc = "finally"
    /\ ~Exists(SessionView, ret.id)
    /\ SessionView # {}

====
